---- MODULE Spec2Model ----
(***************************************************************************)
(* A model of salamanca/ineq.py: the configuration object                  *)
(* (AttrObject / LogNormalData), the LogNormal distribution interface and  *)
(* the Gini/Theil/std conversion functions.                                *)
(*                                                                         *)
(* Python objects live in `heap` (a sequence indexed by object identity).  *)
(* An attribute is either missing (Absent), the Python None, or a value.   *)
(* Attribute values are written as strings ("100", "False", "0.4"): the    *)
(* configuration code only stores, copies and tests them against None.     *)
(***************************************************************************)
EXTENDS Integers, Sequences, FiniteSets, TLC

VARIABLES
    heap,       \* object identity -> attributes of a LogNormalData object
    init_data,  \* LogNormal.init_data: identity of the baseline (0: no LogNormal yet)
    last        \* the call that has just returned or raised, with what the caller saw

vars == <<heap, init_data, last>>

----------------------------------------------------------------------------
(* Bounds of the model *)

\* at most this many keyword arguments in one call
MaxKw == 2
\* at most this many LogNormalData objects held by the caller at once
MaxObjs == 2
\* arrays passed to the conversion functions have 1..MaxArr elements
MaxArr == 2

----------------------------------------------------------------------------
(* Values and keyword arguments *)

None == "None"
Absent == "Absent"

Fields == {"inc", "mean", "gini", "theil"}
Control == {"copy", "override"}

\* the values a caller passes for each keyword
KwVals(k) ==
    CASE k = "inc" -> {None, "100"}
      [] k = "mean" -> {None, "False"}
      [] k = "gini" -> {None, "0.4"}
      [] k = "theil" -> {None, "0.2"}
      [] OTHER -> {"True", "False"}

\* keyword dictionaries over the keys `keys` with at most MaxKw entries
KwDicts(keys) ==
    UNION { { f \in [S -> {None, "100", "False", "0.4", "0.2", "True"}] :
                \A k \in S : f[k] \in KwVals(k) } :
            S \in { T \in SUBSET keys : Cardinality(T) <= MaxKw } }

FieldKw == KwDicts(Fields)
CallKw == KwDicts(Fields \cup Control)

\* Python truthiness of the values above
Truthy(v) == v \notin {None, "False"}

\* the part of a **kwargs dictionary left after the named parameters are bound
Rest(kwargs, named) == [k \in DOMAIN kwargs \ named |-> kwargs[k]]

----------------------------------------------------------------------------
(* Numbers.  Standard deviations and Theil indices are fixed-point integers  *)
(* in units of 1/Unit, Gini coefficients in units of 1/GiniUnit.             *)

Unit == 10 ^ 4
GiniUnit == 10 ^ 8

\* MAX_THEIL = 6.64, in units of 1/Unit
MAX_THEIL == 66400

\* (a, b, c) = (0.216, 0.991, 0.003), in units of 1/Unit
theil_empirical_constants == <<2160, 9910, 30>>

\* largest r with r * r <= n, by bisection on lo..hi
RECURSIVE ISqrtIn(_, _, _)
ISqrtIn(n, lo, hi) ==
    IF lo >= hi THEN lo
    ELSE LET mid == (lo + hi + 1) \div 2
         IN  IF mid * mid <= n THEN ISqrtIn(n, mid, hi) ELSE ISqrtIn(n, lo, mid - 1)

ISqrt(n) == ISqrtIn(n, 0, 46340)

\* x * y of two fixed-point numbers (split so that no product leaves 32 bits)
FMul(x, y) == (x \div Unit) * y + ((x % Unit) * y) \div Unit

\* x / y of two fixed-point numbers
FDiv(x, y) == (x * Unit) \div y

\* x ** 0.5 of a fixed-point number (a negative x has no real root: nan)
FSqrt(x) == IF x < 200000 THEN ISqrt(x * Unit) ELSE 10 * ISqrt(x * 100)

\* scipy.special.erf at x = 0.00, 0.01, ..., 3.00, in units of 1/GiniUnit
ErfStep == Unit \div 100
ErfKnots == 300
ErfTable ==
    <<
        0, 1128342, 2256457, 3384122, 4511111, 5637198, 6762159,
        7885772, 9007813, 10128059, 11246292, 12362290, 13475835, 14586711,
        15694703, 16799597, 17901181, 18999246, 20093584, 21183989, 22270259,
        23352192, 24429591, 25502260, 26570006, 27632639, 28689972, 29741822,
        30788007, 31828350, 32862676, 33890815, 34912599, 35927865, 36936453,
        37938205, 38932970, 39920598, 40900945, 41873870, 42839236, 43796909,
        44746762, 45688669, 46622512, 47548172, 48465539, 49374505, 50274967,
        51166826, 52049988, 52924362, 53789863, 54646410, 55493925, 56332337,
        57161576, 57981581, 58792290, 59593650, 60385609, 61168122, 61941146,
        62704644, 63458583, 64202933, 64937669, 65662770, 66378220, 67084006,
        67780119, 68466555, 69143312, 69810394, 70467808, 71115563, 71753675,
        72382161, 73001043, 73610345, 74210096, 74800328, 75381075, 75952376,
        76514271, 77066806, 77610027, 78143985, 78668732, 79184325, 79690821,
        80188283, 80676772, 81156356, 81627102, 82089081, 82542365, 82987029,
        83423150, 83850807, 84270079, 84681050, 85083802, 85478421, 85864995,
        86243611, 86614359, 86977330, 87332616, 87680310, 88020507, 88353301,
        88678789, 88997067, 89308233, 89612384, 89909620, 90200040, 90483743,
        90760829, 91031398, 91295551, 91553388, 91805010, 92050518, 92290013,
        92523594, 92751363, 92973419, 93189863, 93400794, 93606312, 93806516,
        94001503, 94191372, 94376220, 94556144, 94731240, 94901604, 95067330,
        95228512, 95385244, 95537618, 95685725, 95829657, 95969503, 96105351,
        96237290, 96365407, 96489786, 96610515, 96727675, 96841350, 96951621,
        97058569, 97162273, 97262812, 97360263, 97454701, 97546202, 97634838,
        97720684, 97803809, 97884284, 97962178, 98037559, 98110492, 98181044,
        98249279, 98315259, 98379046, 98440701, 98500283, 98557850, 98613459,
        98667167, 98719028, 98769094, 98817420, 98864055, 98909050, 98952454,
        98994316, 99034681, 99073595, 99111103, 99147249, 99182075, 99215622,
        99247932, 99279043, 99308994, 99337823, 99365565, 99392257, 99417933,
        99442628, 99466372, 99489200, 99511141, 99532227, 99552485, 99571945,
        99590635, 99608581, 99625810, 99642346, 99658215, 99673441, 99688046,
        99702053, 99715485, 99728361, 99740702, 99752529, 99763861, 99774715,
        99785111, 99795065, 99804594, 99813715, 99822444, 99830795, 99838783,
        99846423, 99853728, 99860712, 99867387, 99873766, 99879861, 99885682,
        99891242, 99896551, 99901620, 99906457, 99911073, 99915478, 99919679,
        99923686, 99927506, 99931149, 99934620, 99937928, 99941080, 99944083,
        99946942, 99949665, 99952257, 99954724, 99957071, 99959305, 99961429,
        99963450, 99965371, 99967198, 99968934, 99970584, 99972151, 99973640,
        99975054, 99976397, 99977671, 99978881, 99980029, 99981118, 99982151,
        99983131, 99984060, 99984941, 99985776, 99986567, 99987316, 99988026,
        99988699, 99989335, 99989938, 99990508, 99991048, 99991559, 99992042,
        99992499, 99992931, 99993339, 99993725, 99994090, 99994434, 99994760,
        99995067, 99995358, 99995632, 99995890, 99996134, 99996365, 99996582,
        99996787, 99996980, 99997162, 99997333, 99997495, 99997647, 99997791
    >>

\* scipy.special.erf(x), x >= 0 in units of 1/Unit: linear between the tabulated
\* points, and the last tabulated value beyond them
Erf(x) ==
    IF x >= ErfKnots * ErfStep THEN ErfTable[ErfKnots + 1]
    ELSE LET i == x \div ErfStep
             lo == ErfTable[i + 1]
             hi == ErfTable[i + 2]
         IN  lo + ((hi - lo) * (x - ErfStep * i)) \div ErfStep

\* scipy.special.erfinv(g), 0 <= g in units of 1/GiniUnit: the inverse of Erf
\* (erfinv(1) and beyond, inf or nan in scipy, is the last tabulated point;
\* erfinv is odd, and the conversions reject g <= 0 before it is reached)
ErfInv(g) ==
    IF g < 0 THEN 0 - ErfKnots * ErfStep
    ELSE IF g >= ErfTable[ErfKnots + 1] THEN ErfKnots * ErfStep
    ELSE LET i == CHOOSE k \in 0..(ErfKnots - 1) : ErfTable[k + 1] <= g /\ g < ErfTable[k + 2]
             lo == ErfTable[i + 1]
             hi == ErfTable[i + 2]
         IN  ErfStep * i + (ErfStep * (g - lo)) \div (hi - lo)

----------------------------------------------------------------------------
(* The conversion functions.  An array argument is converted element by     *)
(* element, as numpy does.                                                  *)

\* sigma = 2 erfinv(g)
gini_to_std(g) == 2 * ErfInv(g)

\* g = erf(sigma / 2)
std_to_gini(s) == Erf(s \div 2)

\* sigma = sqrt(2 t)
theil_to_std(t) == FSqrt(2 * t)

\* t = sigma^2 / 2
std_to_theil(s) == FMul(s, s) \div 2

\* Faulty variant: np.all(v <= b)
all_lt_inclusive(v, b) == \A i \in 1..Len(v) : v[i] <= b

\* np.all(v > b) and np.all(v < b)
all_gt(v, b) == \A i \in 1..Len(v) : v[i] > b
all_lt(v, b) == \A i \in 1..Len(v) : v[i] < b

GiniError == "Gini not within (0, 1)"
TheilError == "Theil not within (0, 2.88)"

\* np.all(g > 0) and np.all(g < 1)
gini_in_domain(g) == all_gt(g, 0) /\ all_lt(g, GiniUnit)

\* Faulty variant: the Theil test without its lower bound
theil_in_domain_upper(t) == all_lt(t, MAX_THEIL)

\* np.all(t < MAX_THEIL) and np.all(t > 0)
theil_in_domain(t) == all_lt(t, MAX_THEIL) /\ all_gt(t, 0)

\* Faulty variant: the other root of the quadratic
empirical_root_negative(t) ==
    LET a == theil_empirical_constants[1]
        b == theil_empirical_constants[2]
        c == theil_empirical_constants[3]
    IN  FDiv(-b - FSqrt(FMul(b, b) - 4 * FMul(a, c - t)), 2 * a)

\* t = (-b + (b ** 2 - 4 * a * (c - t)) ** 0.5) / (2 * a)
empirical_root(t) ==
    LET a == theil_empirical_constants[1]
        b == theil_empirical_constants[2]
        c == theil_empirical_constants[3]
    IN  FDiv(-b + FSqrt(FMul(b, b) - 4 * FMul(a, c - t)), 2 * a)

\* t = a * t ** 2 + b * t + c
empirical_quadratic(t) ==
    LET a == theil_empirical_constants[1]
        b == theil_empirical_constants[2]
        c == theil_empirical_constants[3]
    IN  FMul(a, FMul(t, t)) + FMul(b, t) + c

\* gini_to_theil(g, empirical): "ok" and the result, or the message of the ValueError
gini_to_theil(g, empirical) ==
    IF ~gini_in_domain(g) THEN [out |-> GiniError, res |-> <<>>]
    ELSE LET s == [i \in 1..Len(g) |-> gini_to_std(g[i])]
             t0 == [i \in 1..Len(s) |-> std_to_theil(s[i])]
             t == IF empirical THEN [i \in 1..Len(t0) |-> empirical_root(t0[i])] ELSE t0
         IN  IF ~theil_in_domain(t) THEN [out |-> TheilError, res |-> <<>>]
             ELSE [out |-> "ok", res |-> t]

\* theil_to_gini(t, empirical): "ok" and the result, or the message of the ValueError
theil_to_gini(t, empirical) ==
    IF ~theil_in_domain(t) THEN [out |-> TheilError, res |-> <<>>]
    ELSE LET t1 == IF empirical THEN [i \in 1..Len(t) |-> empirical_quadratic(t[i])] ELSE t
             s == [i \in 1..Len(t1) |-> theil_to_std(t1[i])]
             g == [i \in 1..Len(s) |-> std_to_gini(s[i])]
         IN  IF ~gini_in_domain(g) THEN [out |-> GiniError, res |-> <<>>]
             ELSE [out |-> "ok", res |-> g]

----------------------------------------------------------------------------
(* AttrObject *)

\* an object with no attribute set
NewObject == [k \in Fields |-> Absent]

\* getattr(x, k, None)
getattr(x, k) == IF x[k] = Absent THEN None ELSE x[k]

\* setattr(x, k, v)
setattr(x, k, v) == [x EXCEPT ![k] = v]

\* Faulty variant: update(copy=True) without the deepcopy: the receiver itself
deepcopy_alias(h, self) == [heap |-> h, ret |-> self]

\* deepcopy(self): a new object with the same attributes
deepcopy(h, self) == [heap |-> Append(h, h[self]), ret |-> Len(h) + 1]

\* Faulty variant: the loop of update without the test of override
ApplyItems_always(x, override, kw) ==
    [k \in Fields |-> IF k \in DOMAIN kw THEN kw[k] ELSE x[k]]

\* Faulty variant: the loop of update testing hasattr(x, k) in place of `is None`
ApplyItems_hasattr(x, override, kw) ==
    [k \in Fields |->
        IF k \in DOMAIN kw /\ (override \/ x[k] = Absent) THEN kw[k] ELSE x[k]]

\* the loop of update: for k, v in kwargs.items(): if override or getattr(x, k, None) is None: setattr(x, k, v)
ApplyItems(x, override, kw) ==
    [k \in Fields |->
        IF k \in DOMAIN kw /\ (override \/ getattr(x, k) = None)
        THEN setattr(x, k, kw[k])[k]
        ELSE x[k]]

\* AttrObject.update(self, copy, override, **kw): the heap afterwards and the object returned
update(h, self, copy, override, kw) ==
    LET c == IF copy THEN deepcopy(h, self) ELSE [heap |-> h, ret |-> self]
    IN  [heap |-> [c.heap EXCEPT ![c.ret] = ApplyItems(c.heap[c.ret], override, kw)],
         ret |-> c.ret]

\* x.update(**kwargs): the keys copy and override of kwargs bind to the named parameters
update_kwargs(h, self, kwargs) ==
    update(h, self,
           IF "copy" \in DOMAIN kwargs THEN Truthy(kwargs["copy"]) ELSE TRUE,
           IF "override" \in DOMAIN kwargs THEN Truthy(kwargs["override"]) ELSE TRUE,
           Rest(kwargs, Control))

----------------------------------------------------------------------------
(* LogNormalData *)

\* LogNormalData._get
_get(x, k) == getattr(x, k)

defaults == [inc |-> "1", mean |-> "True", gini |-> None, theil |-> None]

\* LogNormalData.add_defaults
add_defaults(h, self, copy) == update(h, self, copy, FALSE, defaults)

ErrNeither == "Must use either theil or gini"
ErrBoth == "Cannot use both theil and gini"
ErrDeclare(k) == "Must declare value for " \o k

\* Faulty variant: check with any() in the test for both measures
check_any(x) ==
    IF \A k \in {"theil", "gini"} : _get(x, k) = None THEN ErrNeither
    ELSE IF \E k \in {"theil", "gini"} : _get(x, k) # None THEN ErrBoth
    ELSE IF _get(x, "inc") = None THEN ErrDeclare("inc")
    ELSE IF _get(x, "mean") = None THEN ErrDeclare("mean")
    ELSE "ok"

\* LogNormalData.check: "ok" when it returns self, else the message of the ValueError
check(x) ==
    IF \A k \in {"theil", "gini"} : _get(x, k) = None THEN ErrNeither
    ELSE IF \A k \in {"theil", "gini"} : _get(x, k) # None THEN ErrBoth
    ELSE IF _get(x, "inc") = None THEN ErrDeclare("inc")
    ELSE IF _get(x, "mean") = None THEN ErrDeclare("mean")
    ELSE "ok"

----------------------------------------------------------------------------
(* The caller's view of a call *)

NoShape == <<"none", None>>
NoScale == <<"none", None, NoShape>>

NoCall == [op |-> "none", recv |-> 0, kw |-> <<>>, copy |-> TRUE, override |-> TRUE,
           pre |-> <<>>, ret |-> 0, out |-> "ok", data |-> NewObject,
           shape |-> NoShape, scale |-> NoScale,
           arg |-> <<>>, empirical |-> FALSE, mid |-> [out |-> "ok", res |-> <<>>],
           res |-> <<>>]

----------------------------------------------------------------------------
(* Calls on configuration objects *)

\* x = LogNormalData(**kw): __init__ applies the fields in place to the new object
NewData(kw) ==
    /\ last.op = "none"
    /\ Len(heap) < MaxObjs
    /\ LET r == update(Append(heap, NewObject), Len(heap) + 1, FALSE, TRUE, kw)
       IN  /\ heap' = r.heap
           /\ last' = [NoCall EXCEPT !.op = "LogNormalData", !.kw = kw, !.pre = heap,
                                     !.copy = FALSE, !.ret = r.ret]
    /\ UNCHANGED init_data

\* heap[self].update(copy=copy, override=override, **kw)
DoUpdate(self, copy, override, kw) ==
    /\ last.op = "none"
    /\ self \in 1..Len(heap)
    /\ copy => Len(heap) < MaxObjs
    /\ LET r == update(heap, self, copy, override, kw)
       IN  /\ heap' = r.heap
           /\ last' = [NoCall EXCEPT !.op = "update", !.recv = self, !.kw = kw,
                                     !.copy = copy, !.override = override,
                                     !.pre = heap, !.ret = r.ret]
    /\ UNCHANGED init_data

\* heap[self].add_defaults(copy=copy)
DoAddDefaults(self, copy) ==
    /\ last.op = "none"
    /\ self \in 1..Len(heap)
    /\ copy => Len(heap) < MaxObjs
    /\ LET r == add_defaults(heap, self, copy)
       IN  /\ heap' = r.heap
           /\ last' = [NoCall EXCEPT !.op = "add_defaults", !.recv = self,
                                     !.copy = copy, !.override = FALSE,
                                     !.pre = heap, !.ret = r.ret]
    /\ UNCHANGED init_data

\* heap[self].check()
DoCheck(self) ==
    /\ last.op = "none"
    /\ self \in 1..Len(heap)
    /\ LET out == check(heap[self])
       IN  last' = [NoCall EXCEPT !.op = "check", !.recv = self, !.pre = heap,
                                  !.out = out,
                                  !.ret = IF out = "ok" THEN self ELSE 0]
    /\ UNCHANGED <<heap, init_data>>

\* the caller is done with the result of the call
Discard ==
    /\ last.op # "none"
    /\ last' = NoCall
    /\ UNCHANGED <<heap, init_data>>

Init ==
    /\ heap = <<>>
    /\ init_data = 0
    /\ last = NoCall

NextObj ==
    \/ \E kw \in FieldKw : NewData(kw)
    \/ \E self \in 1..MaxObjs, copy \in BOOLEAN, override \in BOOLEAN, kw \in FieldKw :
          DoUpdate(self, copy, override, kw)
    \/ \E self \in 1..MaxObjs, copy \in BOOLEAN : DoAddDefaults(self, copy)
    \/ \E self \in 1..MaxObjs : DoCheck(self)
    \/ Discard

SpecObj == Init /\ [][NextObj]_vars

----------------------------------------------------------------------------
(* LogNormal *)

\* Faulty variant: shape chosen by the test `data.gini is None`
ShapeOf_swapped(data) ==
    IF data.gini = None THEN <<"gini_to_std", data.gini>>
    ELSE <<"theil_to_std", data.theil>>

\* shape = gini_to_std(data.gini) if data.theil is None else theil_to_std(data.theil).
\* The configuration's values are symbols, so the conversion, np.exp and np.log
\* are kept as terms <<function, arguments>> and not computed
ShapeOf(data) ==
    IF data.theil = None THEN <<"gini_to_std", data.gini>>
    ELSE <<"theil_to_std", data.theil>>

\* scale: inc itself, or np.exp(np.log(inc) - shape ** 2 / 2) when data.mean is true
ScaleOf(data, shape) ==
    IF Truthy(data.mean) THEN <<"np.exp(np.log(inc) - shape ** 2 / 2)", data.inc, shape>>
    ELSE <<"inc", data.inc, shape>>

\* AttrObject.__init__(self, **kwargs): self.update(copy=False, **kwargs); a key `copy`
\* in kwargs is a second value for the parameter copy, a TypeError
construct(h, kwargs) ==
    IF "copy" \in DOMAIN kwargs
    THEN [heap |-> h, ret |-> 0, out |-> "TypeError"]
    ELSE LET r == update(Append(h, NewObject), Len(h) + 1, FALSE,
                         IF "override" \in DOMAIN kwargs
                         THEN Truthy(kwargs["override"]) ELSE TRUE,
                         Rest(kwargs, Control))
         IN  [heap |-> r.heap, ret |-> r.ret, out |-> "ok"]

\* LogNormal.params(**kwargs): the heap afterwards (the call's own objects are
\* dropped when it ends), the object check() saw, and (shape, scale) or the error
params(h, self, kwargs) ==
    LET u == update_kwargs(h, self, kwargs)
        d == add_defaults(u.heap, u.ret, TRUE)
        data == d.heap[d.ret]
        out == check(data)
        shape == IF out = "ok" THEN ShapeOf(data) ELSE NoShape
    IN  [heap |-> SubSeq(d.heap, 1, Len(h)),
         out |-> out,
         data |-> data,
         shape |-> shape,
         scale |-> IF out = "ok" THEN ScaleOf(data, shape) ELSE NoScale]

\* ln = LogNormal(**kwargs)
NewLogNormal(kwargs) ==
    /\ last.op = "none"
    /\ init_data = 0
    /\ LET r == construct(heap, kwargs)
       IN  /\ heap' = r.heap
           /\ init_data' = r.ret
           /\ last' = [NoCall EXCEPT !.op = "LogNormal", !.kw = kwargs, !.pre = heap,
                                     !.ret = r.ret, !.out = r.out]

\* a query method: shape, scale = self.params(**kwargs), then the library call
Query(op, kwargs) ==
    /\ last.op = "none"
    /\ init_data # 0
    /\ LET r == params(heap, init_data, kwargs)
       IN  /\ heap' = r.heap
           /\ last' = [NoCall EXCEPT !.op = op, !.recv = init_data, !.kw = kwargs,
                                     !.pre = heap, !.out = r.out, !.data = r.data,
                                     !.shape = r.shape, !.scale = r.scale]
    /\ UNCHANGED init_data

Params(kwargs) == Query("params", kwargs)
Ppf(kwargs) == Query("ppf", kwargs)
Cdf(kwargs) == Query("cdf", kwargs)
Lorenz(kwargs) == Query("lorenz", kwargs)
Mean(kwargs) == Query("mean", kwargs)
Median(kwargs) == Query("median", kwargs)
Var(kwargs) == Query("var", kwargs)
Std(kwargs) == Query("std", kwargs)

QueryOps == {"params", "ppf", "cdf", "lorenz", "mean", "median", "var", "std"}

NextLN ==
    \/ \E kwargs \in CallKw : NewLogNormal(kwargs)
    \/ \E kwargs \in CallKw : Params(kwargs)
    \/ \E kwargs \in CallKw : Ppf(kwargs)
    \/ \E kwargs \in CallKw : Cdf(kwargs)
    \/ \E kwargs \in CallKw : Lorenz(kwargs)
    \/ \E kwargs \in CallKw : Mean(kwargs)
    \/ \E kwargs \in CallKw : Median(kwargs)
    \/ \E kwargs \in CallKw : Var(kwargs)
    \/ \E kwargs \in CallKw : Std(kwargs)
    \/ Discard

SpecLN == Init /\ [][NextLN]_vars

----------------------------------------------------------------------------
(* Calls of the conversion functions *)

\* Gini inputs: -0.1, 0, 0.03, 0.1, 0.3, 0.5, 0.9, 0.99, 0.995, 0.99995, 1, 1.5
GiniGrid == {-10000000, 0, 3000000, 10000000, 30000000, 50000000, 90000000,
             99000000, 99500000, 99995000, 100000000, 150000000}

\* Theil inputs: -0.5, 0, 0.01, 0.2, 1, 5, 6.6, 6.64, 10
TheilGrid == {-5000, 0, 100, 2000, 10000, 50000, 66000, 66400, 100000}

\* a scalar is an array of one element
Arrays(S) == UNION { [1..n -> S] : n \in 1..MaxArr }

\* gini_to_theil(g, empirical=empirical)
GiniToTheil(g, empirical) ==
    /\ last.op = "none"
    /\ LET r == gini_to_theil(g, empirical)
       IN  last' = [NoCall EXCEPT !.op = "gini_to_theil", !.arg = g,
                                  !.empirical = empirical, !.out = r.out, !.res = r.res]
    /\ UNCHANGED <<heap, init_data>>

\* theil_to_gini(t, empirical=empirical)
TheilToGini(t, empirical) ==
    /\ last.op = "none"
    /\ LET r == theil_to_gini(t, empirical)
       IN  last' = [NoCall EXCEPT !.op = "theil_to_gini", !.arg = t,
                                  !.empirical = empirical, !.out = r.out, !.res = r.res]
    /\ UNCHANGED <<heap, init_data>>

\* theil_to_gini(gini_to_theil(g, empirical=empirical), empirical=empirical):
\* an error of the inner call leaves the expression
RoundTripGini(g, empirical) ==
    /\ last.op = "none"
    /\ LET m == gini_to_theil(g, empirical)
           r == IF m.out = "ok" THEN theil_to_gini(m.res, empirical) ELSE m
       IN  last' = [NoCall EXCEPT !.op = "theil_to_gini(gini_to_theil)", !.arg = g,
                                  !.empirical = empirical, !.mid = m,
                                  !.out = r.out, !.res = r.res]
    /\ UNCHANGED <<heap, init_data>>

\* gini_to_theil(theil_to_gini(t, empirical=empirical), empirical=empirical)
RoundTripTheil(t, empirical) ==
    /\ last.op = "none"
    /\ LET m == theil_to_gini(t, empirical)
           r == IF m.out = "ok" THEN gini_to_theil(m.res, empirical) ELSE m
       IN  last' = [NoCall EXCEPT !.op = "gini_to_theil(theil_to_gini)", !.arg = t,
                                  !.empirical = empirical, !.mid = m,
                                  !.out = r.out, !.res = r.res]
    /\ UNCHANGED <<heap, init_data>>

NextConv ==
    \/ \E g \in Arrays(GiniGrid), empirical \in BOOLEAN : GiniToTheil(g, empirical)
    \/ \E t \in Arrays(TheilGrid), empirical \in BOOLEAN : TheilToGini(t, empirical)
    \/ \E g \in Arrays(GiniGrid), empirical \in BOOLEAN : RoundTripGini(g, empirical)
    \/ \E t \in Arrays(TheilGrid), empirical \in BOOLEAN : RoundTripTheil(t, empirical)
    \/ Discard

SpecConv == Init /\ [][NextConv]_vars

----------------------------------------------------------------------------
(* Properties of the configuration object, checked under SpecObj *)

IsSet(x, k) == x[k] \notin {None, Absent}

\* C2: update(copy=True) leaves every field of the receiver (and of every other
\* object) unchanged and returns a new, distinct instance that carries the applied
\* fields; update(copy=False) applies the fields to the receiver, returns the
\* receiver itself, and is not visible in any other instance.
C2_UpdateCopyOrInPlace ==
    last.op = "update" =>
        LET applied(x) == \A k \in DOMAIN last.kw : last.override => x[k] = last.kw[k]
        IN  IF last.copy
            THEN /\ last.ret \notin DOMAIN last.pre
                 /\ last.ret \in DOMAIN heap
                 /\ \A o \in DOMAIN last.pre : heap[o] = last.pre[o]
                 /\ applied(heap[last.ret])
            ELSE /\ last.ret = last.recv
                 /\ DOMAIN heap = DOMAIN last.pre
                 /\ \A o \in DOMAIN last.pre \ {last.recv} : heap[o] = last.pre[o]
                 /\ applied(heap[last.recv])

\* a copy was returned with a field applied, and the receiver kept its old value
C2_Witness ==
    /\ last.op = "update" /\ last.copy /\ last.override
    /\ last.recv = 1 /\ last.ret = 2
    /\ heap[1].inc = None /\ heap[2].inc = "100"

\* C3: after update(override=False, **fields) a field that was non-null keeps its
\* value and a supplied field that was absent or null takes the supplied value;
\* after update(override=True, **fields) every supplied field has the supplied
\* value (a supplied None too); a field not supplied is unchanged in both modes.
\* add_defaults gives inc = 1 and mean = True only where they were unset and never
\* changes a non-null inc, mean, gini or theil.
C3_OverrideAndDefaults ==
    /\ last.op = "update" =>
          LET old == last.pre[last.recv]
              new == heap[last.ret]
          IN  \A k \in Fields :
                 new[k] = IF k \notin DOMAIN last.kw THEN old[k]
                          ELSE IF last.override THEN last.kw[k]
                          ELSE IF IsSet(old, k) THEN old[k]
                          ELSE last.kw[k]
    /\ last.op = "add_defaults" =>
          LET old == last.pre[last.recv]
              new == heap[last.ret]
          IN  /\ new.inc = IF IsSet(old, "inc") THEN old.inc ELSE "1"
              /\ new.mean = IF IsSet(old, "mean") THEN old.mean ELSE "True"
              /\ \A k \in {"gini", "theil"} :
                    new[k] = IF IsSet(old, k) THEN old[k] ELSE None

\* add_defaults on an object with inc = 100 and no mean: inc kept, mean filled
C3_Witness ==
    /\ last.op = "add_defaults"
    /\ last.pre[last.recv].inc = "100"
    /\ last.pre[last.recv].mean = Absent
    /\ heap[last.ret].inc = "100"
    /\ heap[last.ret].mean = "True"

\* C4: check() returns (the same instance) exactly when exactly one of gini/theil
\* is non-null and inc and mean are both non-null; with both measures null it
\* raises the 'either' error, with both non-null the 'both' error, and otherwise,
\* when inc or mean is null or absent, 'Must declare value for' naming such a
\* field (inc before mean); it changes no field of any object.
C4_CheckOutcome ==
    last.op = "check" =>
        LET x == last.pre[last.recv]
            one == IsSet(x, "gini") # IsSet(x, "theil")
        IN  /\ (last.out = "ok") <=> (one /\ IsSet(x, "inc") /\ IsSet(x, "mean"))
            /\ last.out = "ok" => last.ret = last.recv
            /\ (~IsSet(x, "gini") /\ ~IsSet(x, "theil")) => last.out = ErrNeither
            /\ (IsSet(x, "gini") /\ IsSet(x, "theil")) => last.out = ErrBoth
            /\ ErrNeither # ErrBoth
            /\ (one /\ ~IsSet(x, "inc")) => last.out = "Must declare value for inc"
            /\ (one /\ IsSet(x, "inc") /\ ~IsSet(x, "mean"))
                  => last.out = "Must declare value for mean"
            /\ heap = last.pre

\* check() of an object with gini and inc set and mean missing names mean
C4_Witness ==
    /\ last.op = "check"
    /\ last.pre[last.recv].gini = "0.4" /\ last.pre[last.recv].theil = None
    /\ last.pre[last.recv].inc = "100" /\ last.pre[last.recv].mean = Absent
    /\ last.out = "Must declare value for mean"

----------------------------------------------------------------------------
(* Properties of LogNormal, checked under SpecLN *)

ExactlyOneMeasure(x) == IsSet(x, "gini") # IsSet(x, "theil")

\* the baseline with a call's field overrides applied with override=True
Merged(x, kwargs) ==
    [k \in Fields |-> IF k \in DOMAIN kwargs THEN kwargs[k] ELSE x[k]]

\* C1: a query (params, cdf, ppf, lorenz, mean, median, var, std), whatever its
\* keyword arguments and whether it returns or raises, leaves every field of the
\* baseline init_data as it was.
C1_QueryLeavesBaseline ==
    last.op \in QueryOps => heap[init_data] = last.pre[init_data]

\* C5: constructing LogNormal from any combination of inc/mean/gini/theil raises
\* nothing, and a query raises a configuration error exactly when the baseline
\* with the call's overrides applied with override=True does not have exactly
\* one of gini/theil non-null.
C5_ErrorExactlyAtInvalidMerge ==
    /\ (last.op = "LogNormal" /\ DOMAIN last.kw \subseteq Fields) => last.out = "ok"
    /\ last.op \in QueryOps =>
          ((last.out # "ok") <=>
             ~ExactlyOneMeasure(Merged(last.pre[init_data], Rest(last.kw, Control))))

\* C6: when the merged configuration passes check(), shape is gini_to_std(gini) if
\* gini is the measure supplied and theil_to_std(theil) if theil is, and scale is
\* inc itself when mean is false and exp(log(inc) - shape^2 / 2) when mean is true.
C6_ShapeAndScale ==
    (last.op \in QueryOps /\ last.out = "ok") =>
        LET d == last.data
        IN  /\ IsSet(d, "gini") => last.shape = <<"gini_to_std", d.gini>>
            /\ IsSet(d, "theil") => last.shape = <<"theil_to_std", d.theil>>
            /\ d.mean = "False" => last.scale = <<"inc", d.inc, last.shape>>
            /\ d.mean = "True" =>
                  last.scale = <<"np.exp(np.log(inc) - shape ** 2 / 2)", d.inc, last.shape>>

\* params(theil=0.2, mean=False) on a baseline with inc = 100: the median case
C6_Witness ==
    /\ last.op = "params" /\ last.out = "ok"
    /\ last.pre[init_data].inc = "100"
    /\ "theil" \in DOMAIN last.kw /\ "mean" \in DOMAIN last.kw
    /\ last.shape = <<"theil_to_std", "0.2">>
    /\ last.scale = <<"inc", "100", <<"theil_to_std", "0.2">>>>

\* C10: a query never raises 'Must declare value for inc/mean': whatever the
\* baseline and the keyword arguments (inc=None and mean=None included), the
\* object check() sees has inc and mean non-null, an inc or mean left unset
\* being 1 or True, and the only errors are the 'either' and the 'both' error.
C10_NoMustDeclareAtQuery ==
    last.op \in QueryOps =>
        /\ last.out \in {"ok", ErrNeither, ErrBoth}
        /\ IsSet(last.data, "inc") /\ IsSet(last.data, "mean")
        /\ \A k \in {"inc", "mean"} :
              (k \in DOMAIN last.kw /\ last.kw[k] = None /\ "override" \notin DOMAIN last.kw)
                 => last.data[k] = defaults[k]

\* a query passing inc=None on a baseline that has a measure returns, with inc = 1
C10_Witness ==
    /\ last.op \in QueryOps /\ last.out = "ok"
    /\ "inc" \in DOMAIN last.kw /\ last.kw["inc"] = None
    /\ last.pre[init_data].inc = "100"
    /\ last.data.inc = "1"

----------------------------------------------------------------------------
(* Properties of the conversions, checked under SpecConv *)

ValidGini(g) == \A i \in 1..Len(g) : 0 < g[i] /\ g[i] < GiniUnit
ValidTheil(t) == \A i \in 1..Len(t) : 0 < t[i] /\ t[i] < MAX_THEIL

\* tolerances of the fixed-point arithmetic: 0.001 on a Gini, 0.002 on a Theil
TolGini == GiniUnit \div 1000
TolTheil == (2 * Unit) \div 1000

Close(v, w, tol) ==
    /\ Len(v) = Len(w)
    /\ \A i \in 1..Len(v) : v[i] - w[i] <= tol /\ w[i] - v[i] <= tol

\* C7: gini_to_theil raises the Gini domain error, with no result, when any
\* element of g is <= 0 or >= 1, and theil_to_gini raises the Theil domain error
\* when any element of t is <= 0 or >= MAX_THEIL, for either value of empirical.
C7_InputOutsideDomainRaises ==
    /\ (last.op = "gini_to_theil" /\ ~ValidGini(last.arg))
          => (last.out = GiniError /\ last.res = <<>>)
    /\ (last.op = "theil_to_gini" /\ ~ValidTheil(last.arg))
          => (last.out = TheilError /\ last.res = <<>>)

\* an array whose first element is valid and whose second is exactly 1
C7_Witness ==
    /\ last.op = "gini_to_theil" /\ last.empirical
    /\ Len(last.arg) = 2 /\ last.arg[1] = 50000000 /\ last.arg[2] = GiniUnit
    /\ last.out = GiniError

\* C8: a result of gini_to_theil lies strictly inside (0, MAX_THEIL) and a result
\* of theil_to_gini strictly inside (0, 1), elementwise, for both values of
\* empirical; a call on valid input either returns such a result or raises the
\* domain error of the derived value.
C8_ResultInsideDomain ==
    /\ (last.op = "gini_to_theil" /\ last.out = "ok")
          => (Len(last.res) = Len(last.arg) /\ ValidTheil(last.res))
    /\ (last.op = "theil_to_gini" /\ last.out = "ok")
          => (Len(last.res) = Len(last.arg) /\ ValidGini(last.res))
    /\ (last.op = "gini_to_theil" /\ ValidGini(last.arg)) => last.out \in {"ok", TheilError}
    /\ (last.op = "theil_to_gini" /\ ValidTheil(last.arg)) => last.out \in {"ok", GiniError}

\* gini 0.03 is valid, its empirical Theil is negative: reported, not returned
C8_Witness ==
    /\ last.op = "gini_to_theil" /\ last.empirical
    /\ last.arg = <<3000000>>
    /\ last.out = TheilError /\ last.res = <<>>

\* C9 as stated: for every valid g the round trip through gini_to_theil and
\* theil_to_gini returns g, and for every valid t the round trip through
\* theil_to_gini and gini_to_theil returns t, for both values of empirical.
C9_RoundTripOfEveryValidInput ==
    /\ (last.op = "theil_to_gini(gini_to_theil)" /\ ValidGini(last.arg))
          => (last.out = "ok" /\ Close(last.res, last.arg, TolGini))
    /\ (last.op = "gini_to_theil(theil_to_gini)" /\ ValidTheil(last.arg))
          => (last.out = "ok" /\ Close(last.res, last.arg, TolTheil))

\* C9 amended: for every valid g whose gini_to_theil returns, the round trip
\* returns g (for the other valid g the inner gini_to_theil raises the Theil
\* domain error, which is the outcome of the round trip), and for every valid t
\* the round trip returns t, for both values of empirical.
C9_RoundTripWhereGiniConverts ==
    /\ (last.op = "theil_to_gini(gini_to_theil)" /\ ValidGini(last.arg))
          => \/ /\ last.mid.out = "ok"
                /\ last.out = "ok"
                /\ Close(last.res, last.arg, TolGini)
             \/ /\ last.mid.out = TheilError
                /\ last.out = TheilError
    /\ (last.op = "gini_to_theil(theil_to_gini)" /\ ValidTheil(last.arg))
          => (last.out = "ok" /\ Close(last.res, last.arg, TolTheil))

\* an empirical round trip of the array (0.1, 0.99) that returns
C9_Witness ==
    /\ last.op = "theil_to_gini(gini_to_theil)" /\ last.empirical
    /\ last.arg = <<10000000, 99000000>>
    /\ last.out = "ok"
    /\ Close(last.res, last.arg, TolGini)

====
